---- MODULE Spec2Model ----
(***************************************************************************)
(* Model of the dataset persistence and configuration layer:               *)
(*   utils/dataset_config.py  (DATASETS, get_dataset_config)               *)
(*   utils/data_loader.py     (load_tmdb_raw, save/load_processed_data,    *)
(*                             get_splits_path, save/load_splits)          *)
(*   labs/lab0_trying_vibe_coding/problem.py  (find_max_price)             *)
(*                                                                         *)
(* Paths and messages are Python strings, modelled as TLA+ strings and     *)
(* manipulated character by character.  The filesystem is a set of         *)
(* directories plus a function from the paths of existing files to their   *)
(* contents; a Parquet file is a columnar record, a CSV file a sequence    *)
(* of text lines.                                                          *)
(***************************************************************************)
EXTENDS Integers, Sequences, FiniteSets, TLC

VARIABLES
    fs,         \* files on disk: path -> file contents (domain = existing files)
    dirs,       \* directories on disk
    call,       \* the last call made: [op, dataset_name]
    ret,        \* value returned by the last call
    raised,     \* exception that escaped the last call, or "" when none did
    stdout,     \* lines print()ed by the last call
    st_errors,  \* messages passed to st.error by the last call
    remote,     \* number of load_dataset() pulls made by the last call
    prices,     \* the list handed to find_max_price
    pc          \* position of the find_max_price caller: "call" or "done"

vars == <<fs, dirs, call, ret, raised, stdout, st_errors, remote, prices, pc>>

(***************************************************************************)
(* Bounds                                                                  *)
(***************************************************************************)
MaxRows == 2        \* rows of a table handed to a save operation
RemoteRows == 2     \* rows of the remote dataset
MaxLen == 3         \* length of a price list
MaxPrice == 2       \* largest price; the smallest is -1

(***************************************************************************)
(* Python values                                                           *)
(***************************************************************************)
None == [type |-> "NoneType"]

Str(s) == [type |-> "str", value |-> s]

Number(n) == [type |-> "int", value |-> n]

(***************************************************************************)
(* Python string functions                                                 *)
(***************************************************************************)
StrFrom(s, i) == SubSeq(s, i, Len(s))

StartsWith(s, prefix) ==
    /\ Len(prefix) <= Len(s)
    /\ SubSeq(s, 1, Len(prefix)) = prefix

\* str.replace(old, new): every non-overlapping occurrence, left to right
RECURSIVE str_replace(_, _, _)
str_replace(s, old, new) ==
    IF Len(s) < Len(old) THEN s
    ELSE IF StartsWith(s, old)
         THEN new \o str_replace(StrFrom(s, Len(old) + 1), old, new)
         ELSE SubSeq(s, 1, 1) \o str_replace(StrFrom(s, 2), old, new)

\* str.rfind("/") + 1: length of the prefix ending at the last slash, 0 if none
RECURSIVE rfind_slash(_, _)
rfind_slash(p, i) ==
    IF i = 0 THEN 0
    ELSE IF SubSeq(p, i, i) = "/" THEN i
    ELSE rfind_slash(p, i - 1)

RECURSIVE rstrip_slash(_)
rstrip_slash(p) ==
    IF Len(p) > 0 /\ SubSeq(p, Len(p), Len(p)) = "/"
    THEN rstrip_slash(SubSeq(p, 1, Len(p) - 1))
    ELSE p

\* os.path.dirname
dirname(p) ==
    LET head == SubSeq(p, 1, rfind_slash(p, Len(p)))
    IN  IF rstrip_slash(head) = "" THEN head ELSE rstrip_slash(head)

\* os.makedirs(name, exist_ok=True): the leaf and every missing ancestor
RECURSIVE makedirs(_, _)
makedirs(ds, name) ==
    IF name = "" \/ name \in ds THEN ds
    ELSE makedirs(ds, dirname(name)) \cup {name}

\* os.path.exists, on the files and directories given
exists(files, ds, path) == path \in DOMAIN files \/ path \in ds

(***************************************************************************)
(* Dataset identifiers                                                     *)
(***************************************************************************)
\* identifiers handed to the registry, and those handed to the store
Identifiers == {"tmdb", "airbnb", "books", ""}

DatasetNames == {"tmdb", "airbnb", "books"}

(***************************************************************************)
(* utils/dataset_config.py                                                 *)
(***************************************************************************)
DATASETS ==
    [tmdb |->
        [name |-> "TMDB 5000 Movies",
         path |-> "data/processed/tmdb_embedded.parquet",
         text_col |-> "overview",
         title_col |-> "title",
         image_col |-> "local_poster_path",
         image_embedding_col |-> "image_embedding",
         text_embedding_col |-> "embedding",
         label_cols |-> <<"genres">>,
         metadata_cols |-> <<"title", "overview", "genres", "release_date",
                             "vote_average">>,
         visualization_col |-> "genres",
         item_name |-> "Movie"],
     airbnb |->
        [name |-> "NYC Airbnb Listings",
         path |-> "data/processed/airbnb_embedded.parquet",
         text_col |-> "description",
         title_col |-> "name",
         image_col |-> "local_picture_path",
         image_embedding_col |-> "image_embedding",
         text_embedding_col |-> "embedding",
         label_cols |-> <<"neighbourhood", "neighbourhood_group",
                          "property_type", "room_type">>,
         metadata_cols |-> <<"name", "description", "neighbourhood", "price",
                             "review_scores_rating">>,
         visualization_col |-> "neighbourhood",
         item_name |-> "Listing"]]

\* variant: the fallback is another dataset's record
get_dataset_config_other_default(dataset_name) ==
    IF dataset_name \in DOMAIN DATASETS
    THEN DATASETS[dataset_name]
    ELSE DATASETS["airbnb"]

\* DATASETS.get(dataset_name, DATASETS["tmdb"])
get_dataset_config(dataset_name) ==
    IF dataset_name \in DOMAIN DATASETS
    THEN DATASETS[dataset_name]
    ELSE DATASETS["tmdb"]

(***************************************************************************)
(* utils/data_loader.py: paths                                             *)
(***************************************************************************)
RAW_DATA_PATH == "data/raw/tmdb_5000_movies.csv"

\* variant: the split path is built from the identifier, not from the
\* configured path
get_splits_path_from_name(dataset_name) ==
    "data/processed/" \o dataset_name \o "_splits.csv"

get_splits_path(dataset_name) ==
    LET config == get_dataset_config(dataset_name)
        base_path == config["path"]
    IN  str_replace(base_path, ".parquet", "_splits.csv")

\* The paths the calls below work on are fixed by the identifier alone; they
\* are computed once, by the functions above, and looked up by the calls.
ProcessedPath == [n \in Identifiers |-> get_dataset_config(n)["path"]]

SplitsPath == [n \in Identifiers |-> get_splits_path(n)]

Paths ==
    {RAW_DATA_PATH} \cup {ProcessedPath[n] : n \in Identifiers}
                    \cup {SplitsPath[n] : n \in Identifiers}

\* os.makedirs(os.path.dirname(path), exist_ok=True), from no directory at all
ParentDirs == [p \in Paths |-> makedirs({}, dirname(p))]

(***************************************************************************)
(* pandas tables                                                           *)
(*                                                                         *)
(* A DataFrame is row-oriented here: the column names, the dtype of each   *)
(* column and the rows, each row a tuple aligned with the columns.  An     *)
(* int64 cell is an integer, an object cell a string or (for an embedding) *)
(* a vector of numbers standing for the float bit patterns.                *)
(***************************************************************************)
DataFrame(columns, dtypes, rows) ==
    [type |-> "DataFrame", columns |-> columns, dtypes |-> dtypes, rows |-> rows]

\* pd.DataFrame()
EmptyDataFrame == DataFrame(<<>>, <<>>, <<>>)

Range(seq) == {seq[i] : i \in DOMAIN seq}

IndexOf(seq, x) == CHOOSE i \in DOMAIN seq : seq[i] = x

\* variant: no column is dropped
Project_every_column(df, names) == df

\* df[["id", "split"]]: a new frame holding the listed columns, in that order
Project(df, names) ==
    DataFrame(names,
              [j \in DOMAIN names |-> df.dtypes[IndexOf(df.columns, names[j])]],
              [i \in DOMAIN df.rows |->
                  [j \in DOMAIN names |-> df.rows[i][IndexOf(df.columns, names[j])]]])

(***************************************************************************)
(* Parquet: typed, columnar                                                *)
(***************************************************************************)
to_parquet(df) ==
    [format |-> "parquet",
     schema |-> [j \in DOMAIN df.columns |-> <<df.columns[j], df.dtypes[j]>>],
     num_rows |-> Len(df.rows),
     column_chunks |-> [j \in DOMAIN df.columns |->
                           [i \in DOMAIN df.rows |-> df.rows[i][j]]]]

read_parquet(file) ==
    DataFrame([j \in DOMAIN file.schema |-> file.schema[j][1]],
              [j \in DOMAIN file.schema |-> file.schema[j][2]],
              [i \in 1..file.num_rows |->
                  [j \in DOMAIN file.schema |-> file.column_chunks[j][i]]])

(***************************************************************************)
(* CSV: untyped text, a header line and one line per row                   *)
(***************************************************************************)
\* integers that can occur in a table of the model
IntTexts == 100..(101 + MaxRows + RemoteRows)

IsIntText(s) == \E n \in IntTexts : ToString(n) = s

ParseInt(s) == CHOOSE n \in IntTexts : ToString(n) = s

FormatCell(v, dtype) == IF dtype = "int64" THEN ToString(v) ELSE v

\* df.to_csv(path, index=False)
to_csv(df) ==
    [format |-> "csv",
     lines |-> <<df.columns>> \o
               [i \in DOMAIN df.rows |->
                   [j \in DOMAIN df.columns |->
                       FormatCell(df.rows[i][j], df.dtypes[j])]]]

\* dtype inference of pd.read_csv: a column whose every field is an integer
\* literal is int64; any other column, and every column of a table without
\* rows, is object
InferDtype(lines, j) ==
    IF Len(lines) > 1 /\ \A i \in 2..Len(lines) : IsIntText(lines[i][j])
    THEN "int64"
    ELSE "object"

read_csv(file) ==
    LET lines == file.lines
        header == lines[1]
    IN  DataFrame(header,
                  [j \in DOMAIN header |-> InferDtype(lines, j)],
                  [i \in 1..(Len(lines) - 1) |->
                      [j \in DOMAIN header |->
                          IF InferDtype(lines, j) = "int64"
                          THEN ParseInt(lines[i + 1][j])
                          ELSE lines[i + 1][j]]])

(***************************************************************************)
(* Inputs                                                                  *)
(***************************************************************************)
SplitLabels == <<"train", "validation", "test">>

DtypeOf(column) == IF column = "id" THEN "int64" ELSE "object"

\* the cell of row i in the given column
Cell(column, i) ==
    CASE column = "id" -> 100 + i
      [] column = "split" -> SplitLabels[((i - 1) % 3) + 1]
      [] column = "embedding" -> <<i, 0 - i>>
      [] OTHER -> "title " \o ToString(i)

MakeTable(columns, n) ==
    DataFrame(columns,
              [j \in DOMAIN columns |-> DtypeOf(columns[j])],
              [i \in 1..n |-> [j \in DOMAIN columns |-> Cell(columns[j], i)]])

\* tables handed to the save operations: a split table with an extra column,
\* without rows and with rows; the same columns in another order; a processed
\* table, which has no split column; a table without the id column
Tables ==
    { MakeTable(<<"id", "split", "title">>, 0),
      MakeTable(<<"id", "split", "title">>, MaxRows),
      MakeTable(<<"title", "split", "id">>, 1),
      MakeTable(<<"id", "embedding">>, MaxRows),
      MakeTable(<<"split", "title">>, MaxRows) }

\* what load_dataset("AiresPucrs/tmdb-5000-movies", split="train").to_pandas()
\* gives when the pull succeeds
RemoteDataset == MakeTable(<<"id", "title">>, RemoteRows)

PriceLists == UNION {[1..n -> -1..MaxPrice] : n \in 0..MaxLen}

(***************************************************************************)
(* What a call leaves behind for its caller.  Printed messages are kept in *)
(* ASCII: the check mark that opens the success messages is left out.      *)
(***************************************************************************)
Returns(op, args, value, out, errs, pulls) ==
    /\ call' = [op |-> op, args |-> args]
    /\ ret' = value
    /\ raised' = ""
    /\ stdout' = out
    /\ st_errors' = errs
    /\ remote' = pulls

\* variant: an existing file is kept
WriteFile_keep_existing(files, path, contents) ==
    [p \in DOMAIN files \cup {path} |->
        IF p \in DOMAIN files THEN files[p] ELSE contents]

\* writing a file: creates it or replaces its contents
WriteFile(files, path, contents) ==
    [p \in DOMAIN files \cup {path} |-> IF p = path THEN contents ELSE files[p]]

(***************************************************************************)
(* utils/dataset_config.py and get_splits_path, as calls                   *)
(***************************************************************************)
call_get_dataset_config(dataset_name) ==
    /\ Returns("get_dataset_config", <<dataset_name>>,
               get_dataset_config(dataset_name), <<>>, <<>>, 0)
    /\ UNCHANGED <<fs, dirs, prices, pc>>

call_get_splits_path(dataset_name) ==
    /\ Returns("get_splits_path", <<dataset_name>>,
               Str(SplitsPath[dataset_name]), <<>>, <<>>, 0)
    /\ UNCHANGED <<fs, dirs, prices, pc>>

(***************************************************************************)
(* load_tmdb_raw                                                           *)
(***************************************************************************)
\* cache hit: the file at RAW_DATA_PATH is parsed and returned
load_tmdb_raw_cached ==
    /\ exists(fs, dirs, RAW_DATA_PATH)
    /\ Returns("load_tmdb_raw", <<>>, read_csv(fs[RAW_DATA_PATH]), <<>>, <<>>, 0)
    /\ UNCHANGED <<fs, dirs, prices, pc>>

\* variant: the pulled table is returned without being written
load_tmdb_raw_download_uncached ==
    /\ ~exists(fs, dirs, RAW_DATA_PATH)
    /\ Returns("load_tmdb_raw", <<>>, RemoteDataset,
               <<"Raw data not found locally.",
                 "Downloading TMDB 5000 dataset from Hugging Face...">>,
               <<>>, 1)
    /\ UNCHANGED <<fs, dirs, prices, pc>>

\* cache miss, the pull succeeds: the table is cached and returned
load_tmdb_raw_download ==
    /\ ~exists(fs, dirs, RAW_DATA_PATH)
    /\ LET df == RemoteDataset
       IN  /\ dirs' = dirs \cup ParentDirs[RAW_DATA_PATH]
           /\ fs' = WriteFile(fs, RAW_DATA_PATH, to_csv(df))
           /\ Returns("load_tmdb_raw", <<>>, df,
                      <<"Raw data not found locally.",
                        "Downloading TMDB 5000 dataset from Hugging Face...",
                        "Dataset downloaded and cached to " \o RAW_DATA_PATH>>,
                      <<>>, 1)
    /\ UNCHANGED <<prices, pc>>

\* variant: no except clause, the exception of load_dataset escapes
load_tmdb_raw_failed_raises ==
    /\ ~exists(fs, dirs, RAW_DATA_PATH)
    /\ \E e \in {"ConnectionError", "DatasetNotFoundError"} :
          /\ call' = [op |-> "load_tmdb_raw", args |-> <<>>]
          /\ ret' = None
          /\ raised' = e
          /\ stdout' = <<"Raw data not found locally.",
                         "Downloading TMDB 5000 dataset from Hugging Face...">>
          /\ st_errors' = <<>>
          /\ remote' = 1
    /\ UNCHANGED <<fs, dirs, prices, pc>>

\* cache miss, load_dataset raises e: the except clause reports and returns
\* an empty frame
load_tmdb_raw_failed ==
    /\ ~exists(fs, dirs, RAW_DATA_PATH)
    /\ \E e \in {"ConnectionError", "DatasetNotFoundError"} :
          Returns("load_tmdb_raw", <<>>, EmptyDataFrame,
                  <<"Raw data not found locally.",
                    "Downloading TMDB 5000 dataset from Hugging Face...",
                    "Error details: " \o e>>,
                  <<"Failed to download dataset: " \o e>>, 1)
    /\ UNCHANGED <<fs, dirs, prices, pc>>

load_tmdb_raw ==
    \/ load_tmdb_raw_cached
    \/ load_tmdb_raw_download
    \/ load_tmdb_raw_failed

(***************************************************************************)
(* Processed data                                                          *)
(***************************************************************************)
save_processed_data(df, dataset_name) ==
    LET path == ProcessedPath[dataset_name]
    IN  /\ dirs' = dirs \cup ParentDirs[path]
        /\ fs' = WriteFile(fs, path, to_parquet(df))
        /\ Returns("save_processed_data", <<dataset_name>>, None,
                   <<"Processed data saved to " \o path>>, <<>>, 0)
        /\ UNCHANGED <<prices, pc>>

\* variant: a table without rows is taken for a missing one
processed_data_empty_is_none(files, ds, dataset_name) ==
    LET path == ProcessedPath[dataset_name]
    IN  IF exists(files, ds, path) /\ files[path]["num_rows"] > 0
        THEN read_parquet(files[path])
        ELSE None

\* the value load_processed_data(dataset_name) returns on the given files
processed_data(files, ds, dataset_name) ==
    LET path == ProcessedPath[dataset_name]
    IN  IF exists(files, ds, path)
        THEN read_parquet(files[path])
        ELSE None

load_processed_data(dataset_name) ==
    /\ Returns("load_processed_data", <<dataset_name>>,
               processed_data(fs, dirs, dataset_name), <<>>, <<>>, 0)
    /\ UNCHANGED <<fs, dirs, prices, pc>>

(***************************************************************************)
(* Splits                                                                  *)
(***************************************************************************)
HasIdAndSplit(df) == "id" \in Range(df.columns) /\ "split" \in Range(df.columns)

save_splits(df, dataset_name) ==
    LET path == SplitsPath[dataset_name]
    IN  /\ dirs' = dirs \cup ParentDirs[path]
        /\ IF HasIdAndSplit(df)
           THEN /\ fs' = WriteFile(fs, path, to_csv(Project(df, <<"id", "split">>)))
                /\ Returns("save_splits", <<dataset_name>>, None,
                           <<"Split assignments saved to " \o path>>, <<>>, 0)
           ELSE /\ fs' = fs
                /\ Returns("save_splits", <<dataset_name>>, None,
                           <<"Error: DataFrame must contain 'id' and 'split' columns to save splits.">>,
                           <<>>, 0)
        /\ UNCHANGED <<prices, pc>>

\* the value load_splits(dataset_name) returns on the given files
splits(files, ds, dataset_name) ==
    LET path == SplitsPath[dataset_name]
    IN  IF exists(files, ds, path)
        THEN read_csv(files[path])
        ELSE None

load_splits(dataset_name) ==
    /\ Returns("load_splits", <<dataset_name>>,
               splits(fs, dirs, dataset_name), <<>>, <<>>, 0)
    /\ UNCHANGED <<fs, dirs, prices, pc>>

(***************************************************************************)
(* The store: a fresh checkout (no data directory) and any sequence of     *)
(* calls                                                                   *)
(***************************************************************************)
Init ==
    /\ fs = << >>
    /\ dirs = {}
    /\ call = [op |-> "", args |-> <<>>]
    /\ ret = None
    /\ raised = ""
    /\ stdout = <<>>
    /\ st_errors = <<>>
    /\ remote = 0
    /\ prices = <<>>
    /\ pc = "idle"

Next ==
    \/ \E n \in Identifiers : call_get_dataset_config(n)
    \/ \E n \in Identifiers : call_get_splits_path(n)
    \/ load_tmdb_raw
    \/ \E df \in Tables, n \in DatasetNames : save_processed_data(df, n)
    \/ \E n \in DatasetNames : load_processed_data(n)
    \/ \E df \in Tables, n \in DatasetNames : save_splits(df, n)
    \/ \E n \in DatasetNames : load_splits(n)

Spec == Init /\ [][Next]_vars

(***************************************************************************)
(* labs/lab0_trying_vibe_coding/problem.py                                 *)
(***************************************************************************)
\* variant: the comparison is reversed
RECURSIVE max_from_reversed(_, _, _)
max_from_reversed(seq, i, best) ==
    IF i > Len(seq) THEN best
    ELSE max_from_reversed(seq, i + 1, IF seq[i] < best THEN seq[i] ELSE best)

\* the builtin max over a non-empty list: the first of the largest items
RECURSIVE max_from(_, _, _)
max_from(seq, i, best) ==
    IF i > Len(seq) THEN best
    ELSE max_from(seq, i + 1, IF seq[i] > best THEN seq[i] ELSE best)

find_max_price ==
    /\ pc = "call"
    /\ pc' = "done"
    /\ call' = [op |-> "find_max_price", args |-> <<prices>>]
    /\ IF prices = <<>>
       THEN ret' = None /\ raised' = "ValueError"
       ELSE ret' = Number(max_from(prices, 2, prices[1])) /\ raised' = ""
    /\ UNCHANGED <<prices, fs, dirs, stdout, st_errors, remote>>

InitMax ==
    /\ prices \in PriceLists
    /\ pc = "call"
    /\ fs = << >>
    /\ dirs = {}
    /\ call = [op |-> "", args |-> <<>>]
    /\ ret = None
    /\ raised = ""
    /\ stdout = <<>>
    /\ st_errors = <<>>
    /\ remote = 0

NextMax == find_max_price

SpecMax == InitMax /\ [][NextMax]_vars

(***************************************************************************)
(* Properties                                                              *)
(***************************************************************************)
Registered == DOMAIN DATASETS

\* the contents of the file at a path, None when there is no such file
FileAt(files, path) == IF path \in DOMAIN files THEN files[path] ELSE None

IsStep(op) == call'.op = op /\ vars' # vars

ConfigFields ==
    {"name", "path", "text_col", "title_col", "image_col",
     "image_embedding_col", "text_embedding_col", "label_cols",
     "metadata_cols", "visualization_col", "item_name"}

\* p with its "_embedded.parquet" ending replaced by "_splits.csv"
EmbeddedToSplits(p) ==
    SubSeq(p, 1, Len(p) - Len("_embedded.parquet")) \o "_splits.csv"

\* C1: for every registered dataset, get_splits_path returns the processed
\* path with its "_embedded.parquet" ending replaced by "_splits.csv"
\* ("data/processed/tmdb_splits.csv" for tmdb, "data/processed/airbnb_splits.csv"
\* for airbnb).
C1_SplitsPathReplacesEmbeddedEnding ==
    (call.op = "get_splits_path" /\ call.args[1] \in Registered) =>
        /\ ret = Str(EmbeddedToSplits(DATASETS[call.args[1]]["path"]))
        /\ call.args[1] = "tmdb" => ret = Str("data/processed/tmdb_splits.csv")
        /\ call.args[1] = "airbnb" => ret = Str("data/processed/airbnb_splits.csv")

\* C2: a save_splits call whose table lacks the id or the split column reports
\* an error and leaves the filesystem as it was: no file and no directory is
\* created, and every existing file keeps its contents.
C2_RejectedSaveLeavesFilesystemUnchanged ==
    [][IsStep("save_splits") =>
          \A df \in {t \in Tables : ~HasIdAndSplit(t)} :
              save_splits(df, call'.args[1]) =>
                  /\ Len(stdout') = 1
                  /\ StartsWith(stdout'[1], "Error")
                  /\ fs' = fs
                  /\ dirs' = dirs]_vars

\* C3: get_dataset_config returns, for every identifier, a record with every
\* configuration field set and raises nothing; a registered identifier gets
\* its own record, every other identifier the tmdb record.
C3_GetDatasetConfigTotal ==
    call.op = "get_dataset_config" =>
        LET n == call.args[1]
        IN  /\ raised = ""
            /\ ret # None
            /\ DOMAIN ret = ConfigFields
            /\ \A f \in ConfigFields :
                  IF f \in {"label_cols", "metadata_cols"}
                  THEN Len(ret[f]) > 0
                  ELSE ret[f] # ""
            /\ n = "tmdb" => ret["name"] = "TMDB 5000 Movies"
            /\ n = "airbnb" => ret["name"] = "NYC Airbnb Listings"
            /\ n \in Registered => ret = DATASETS[n]
            /\ n \notin Registered => ret = DATASETS["tmdb"]

C3_Witness ==
    /\ call = [op |-> "get_dataset_config", args |-> <<"books">>]
    /\ ret["name"] = "TMDB 5000 Movies"
    /\ ret["path"] = "data/processed/tmdb_embedded.parquet"

\* what load_processed_data / load_splits were called on
LoadPath ==
    IF call.op = "load_processed_data"
    THEN ProcessedPath[call.args[1]]
    ELSE SplitsPath[call.args[1]]

FileRows(file) ==
    IF file["format"] = "parquet" THEN file["num_rows"] ELSE Len(file["lines"]) - 1

\* C4: load_processed_data and load_splits return None exactly when no file
\* exists at the resolved path; a persisted table without rows is loaded as a
\* table without rows, not as None; and a file, once persisted, stays, so that
\* no later load of it returns None.
C4_SentinelOnlyWhenAbsent ==
    /\ [](call.op \in {"load_processed_data", "load_splits"} =>
            /\ raised = ""
            /\ (ret = None) <=> (LoadPath \notin DOMAIN fs)
            /\ LoadPath \in DOMAIN fs =>
                  /\ ret["type"] = "DataFrame"
                  /\ Len(ret["rows"]) = FileRows(fs[LoadPath]))
    /\ [][\A p \in DOMAIN fs : p \in DOMAIN fs']_vars
    /\ [][IsStep("save_processed_data") =>
            \A df \in {t \in Tables : t["rows"] = <<>>} :
                save_processed_data(df, call'.args[1]) =>
                    /\ processed_data(fs', dirs', call'.args[1]) # None
                    /\ processed_data(fs', dirs', call'.args[1])["rows"] = <<>>]_vars
    /\ [][IsStep("save_splits") =>
            \A df \in {t \in Tables : HasIdAndSplit(t) /\ t["rows"] = <<>>} :
                save_splits(df, call'.args[1]) =>
                    /\ splits(fs', dirs', call'.args[1]) # None
                    /\ splits(fs', dirs', call'.args[1])["rows"] = <<>>]_vars

\* a load that returns a table without rows
C4_Witness ==
    /\ call.op \in {"load_processed_data", "load_splits"}
    /\ LoadPath \in DOMAIN fs
    /\ ret # None
    /\ ret["rows"] = <<>>
    /\ ret["columns"] # <<>>

\* C5: after save_processed_data(df, n), for every identifier n and whatever
\* file was at the path before, load_processed_data(n) returns a table equal
\* to df: same columns, same dtypes, same rows, same embedding values.
C5_ProcessedRoundTrip ==
    /\ [][IsStep("save_processed_data") =>
            \A df \in Tables :
                save_processed_data(df, call'.args[1]) =>
                    processed_data(fs', dirs', call'.args[1]) = df]_vars
    /\ [][IsStep("load_processed_data") =>
            /\ ret' = processed_data(fs, dirs, call'.args[1])
            /\ fs' = fs
            /\ dirs' = dirs]_vars

\* a load that returns a saved table with its embedding vectors
C5_Witness ==
    /\ call.op = "load_processed_data"
    /\ ret # None
    /\ ret = MakeTable(<<"id", "embedding">>, MaxRows)
    /\ ret["rows"][MaxRows][2] = <<MaxRows, 0 - MaxRows>>

\* C6: save_splits on a table with an id and a split column writes a split
\* file with exactly the columns id and split and one line per input row,
\* carrying that row's id and split; every other column is dropped, and every
\* other file (the processed-data files among them) is left as it was.
C6_SplitFileIsIdSplitProjection ==
    [][IsStep("save_splits") =>
          \A df \in {t \in Tables : HasIdAndSplit(t)} :
              save_splits(df, call'.args[1]) =>
                  LET path == SplitsPath[call'.args[1]]
                      lines == fs'[path]["lines"]
                      id == IndexOf(df["columns"], "id")
                      split == IndexOf(df["columns"], "split")
                  IN  /\ lines[1] = <<"id", "split">>
                      /\ Len(lines) = Len(df["rows"]) + 1
                      /\ \A i \in DOMAIN df["rows"] :
                            lines[i + 1] = <<ToString(df["rows"][i][id]),
                                             df["rows"][i][split]>>
                      /\ DOMAIN fs' = DOMAIN fs \cup {path}
                      /\ \A p \in DOMAIN fs \ {path} : fs'[p] = fs[p]]_vars

\* a split file written next to an existing processed-data file
C6_Witness ==
    /\ call.op = "save_splits"
    /\ StartsWith(stdout[1], "Split assignments saved to ")
    /\ ProcessedPath[call.args[1]] \in DOMAIN fs
    /\ Len(fs[SplitsPath[call.args[1]]]["lines"]) = MaxRows + 1

RawCached(files) == RAW_DATA_PATH \in DOMAIN files

\* C7: load_tmdb_raw pulls from the remote source only when no file exists at
\* RAW_DATA_PATH; a pull that succeeds is written to RAW_DATA_PATH and
\* returned; the file is never removed, and once it exists every call returns
\* its parsed contents without any pull.
C7_RawIsCacheFirst ==
    /\ [][IsStep("load_tmdb_raw") =>
            /\ remote' > 0 => ~RawCached(fs)
            /\ RawCached(fs) =>
                  /\ remote' = 0
                  /\ ret' = read_csv(fs[RAW_DATA_PATH])
                  /\ fs' = fs
            /\ (~RawCached(fs) /\ ret' = RemoteDataset) =>
                  /\ remote' = 1
                  /\ RawCached(fs')
                  /\ fs'[RAW_DATA_PATH] = to_csv(RemoteDataset)
                  /\ read_csv(fs'[RAW_DATA_PATH]) = ret'
                  /\ dirname(RAW_DATA_PATH) \in dirs']_vars
    /\ [][RawCached(fs) =>
            /\ RawCached(fs')
            /\ fs'[RAW_DATA_PATH] = fs[RAW_DATA_PATH]]_vars

\* a call served from the cache
C7_Witness ==
    /\ call.op = "load_tmdb_raw"
    /\ RawCached(fs)
    /\ remote = 0
    /\ ret = RemoteDataset
    /\ stdout = <<>>

\* C8: when the raw file is absent and the pull fails, load_tmdb_raw raises
\* nothing, reports the failure once, returns an empty table after a single
\* pull, and leaves no file at RAW_DATA_PATH, so that the next call pulls
\* again; and a call returns a table without rows only in that case.
C8_FailedPullIsSoft ==
    /\ [][(IsStep("load_tmdb_raw") /\ ~RawCached(fs) /\ ret' # RemoteDataset) =>
            /\ raised' = ""
            /\ Len(st_errors') = 1
            /\ StartsWith(st_errors'[1], "Failed to download dataset: ")
            /\ ret' = EmptyDataFrame
            /\ remote' = 1
            /\ fs' = fs
            /\ dirs' = dirs
            /\ ~RawCached(fs')]_vars
    /\ [][(IsStep("load_tmdb_raw") /\ ~RawCached(fs)) => remote' = 1]_vars
    /\ [](call.op = "load_tmdb_raw" =>
            /\ raised = ""
            /\ ret["rows"] = <<>> => (Len(st_errors) = 1 /\ ~RawCached(fs))
            /\ ret["rows"] # <<>> => st_errors = <<>>)

\* a failed pull
C8_Witness ==
    /\ call.op = "load_tmdb_raw"
    /\ ret = EmptyDataFrame
    /\ Len(st_errors) = 1
    /\ remote = 1
    /\ ~RawCached(fs)

\* C9: for a non-empty list, find_max_price returns an element of the list
\* that no element exceeds; for the empty list it ends in an exception and
\* returns nothing; the list is left as it was.
C9_FindMaxPrice ==
    /\ [](pc = "done" =>
            IF prices # <<>>
            THEN /\ raised = ""
                 /\ ret["type"] = "int"
                 /\ \E i \in DOMAIN prices : prices[i] = ret["value"]
                 /\ \A i \in DOMAIN prices : prices[i] <= ret["value"]
            ELSE /\ raised # ""
                 /\ ret = None)
    /\ [][prices' = prices]_vars

\* the maximum found in the middle of a list of distinct prices
C9_Witness ==
    /\ pc = "done"
    /\ Len(prices) = MaxLen
    /\ prices[1] < prices[2]
    /\ prices[MaxLen] < prices[2]
    /\ prices[1] # prices[MaxLen]
    /\ ret = Number(prices[2])

Unregistered == DatasetNames \ Registered

\* C10: a save under an unregistered identifier writes tmdb's processed file
\* and tmdb's split file, so that load_processed_data("tmdb") returns the
\* table saved and load_splits("tmdb") its id/split rows; a save under a
\* registered identifier leaves the files of the other registered identifier
\* as they were.
C10_FallbackAliasesTmdb ==
    /\ [][IsStep("save_processed_data") =>
            \A df \in Tables :
                save_processed_data(df, call'.args[1]) =>
                    /\ call'.args[1] \in Unregistered =>
                          /\ FileAt(fs', DATASETS["tmdb"]["path"]) = to_parquet(df)
                          /\ processed_data(fs', dirs', "tmdb") = df
                    /\ call'.args[1] \in Registered =>
                          \A m \in Registered \ {call'.args[1]} :
                              /\ FileAt(fs', ProcessedPath[m]) = FileAt(fs, ProcessedPath[m])
                              /\ FileAt(fs', SplitsPath[m]) = FileAt(fs, SplitsPath[m])]_vars
    /\ [][IsStep("save_splits") =>
            \A df \in {t \in Tables : HasIdAndSplit(t)} :
                save_splits(df, call'.args[1]) =>
                    /\ call'.args[1] \in Unregistered =>
                          /\ splits(fs', dirs', "tmdb") # None
                          /\ splits(fs', dirs', "tmdb")["columns"] = <<"id", "split">>
                          /\ splits(fs', dirs', "tmdb")["rows"] =
                                Project(df, <<"id", "split">>)["rows"]
                    /\ call'.args[1] \in Registered =>
                          \A m \in Registered \ {call'.args[1]} :
                              /\ FileAt(fs', ProcessedPath[m]) = FileAt(fs, ProcessedPath[m])
                              /\ FileAt(fs', SplitsPath[m]) = FileAt(fs, SplitsPath[m])]_vars

\* tmdb's artifacts overwritten by saves under "books", airbnb's still there
C10_Witness ==
    /\ call.op \in {"save_processed_data", "save_splits"}
    /\ call.args[1] \in Unregistered
    /\ processed_data(fs, dirs, "tmdb") = MakeTable(<<"id", "embedding">>, MaxRows)
    /\ splits(fs, dirs, "tmdb") # None
    /\ Len(splits(fs, dirs, "tmdb")["rows"]) = MaxRows
    /\ processed_data(fs, dirs, "airbnb") # None

====
